---- MODULE Spec2Model ----
(***************************************************************************)
(* Model of the asynchronous pipeline job of meeting_summary/web.py:       *)
(* PipelineJob (messages, result, error, done, _lock/_cv), the background  *)
(* thread _run_pipeline_job, the SSE generator pipeline_events.event_stream *)
(* and the poll endpoint pipeline_result; of the job registry; and of the  *)
(* functions generate_summary_text, _save_upload, extract_audio,           *)
(* transcribe_audio and segments_to_srt, each under its own specification. *)
(*                                                                         *)
(* Python's Optional values are sequences: <<>> is None, <<v>> is v.       *)
(* The 'ts' field of an event (time.time()) is not modelled: no operation  *)
(* of the program reads it.                                                *)
(***************************************************************************)
EXTENDS Integers, Sequences, FiniteSets, TLC

\* ---------------------------------------------------------------- bounds
\* Subscribers of the job's event stream.
NSubs == 2

\* Subscribers that connect in the specification with fairness.
NLiveSubs == 1

Subs == 1..NSubs

\* Requests that create a job concurrently.
NCreators == 2

Creators == 1..NCreators

\* Length of the longest transcript handed to generate_summary_text.
MaxTextLen == 15

\* The loop over the chunks is followed for chunk lists up to this length.
MaxChunks == 4

\* Calls of extract_audio and transcribe_audio made on one directory.
MaxFsCalls == 2

\* Length of the longest segment list handed to segments_to_srt.
MaxSegs == 2

LiveSubs == {s \in Subs : s <= NLiveSubs}

\* ------------------------------------------------------- Optional values
None == <<>>

Some(v) == <<v>>

\* A test 'is not None' in place of the truthiness test.
TruthyNotNone(o) == o # None

\* Python truthiness of an Optional[str]: None and '' are falsy.
Truthy(o) == o # None /\ o[1] # ""

\* --------------------------------------------------------------- utils.py
VIDEO_EXTENSIONS ==
  {".mp4", ".mov", ".mkv", ".avi", ".webm", ".m4v", ".flv", ".3gp", ".ts",
   ".vob", ".wmv", ".mpeg", ".mpg", ".m2ts", ".ogv"}

AUDIO_EXTENSIONS ==
  {".wav", ".mp3", ".aac", ".ogg", ".flac", ".m4a", ".wma", ".webm", ".opus"}

\* A call either returns a value or raises; SystemExit is a BaseException
\* that is not an Exception.
Return(v) == [kind |-> "return", val |-> Some(v), msg |-> ""]

Raise(k, m) == [kind |-> k, val |-> None, msg |-> m]

\* require_ext: raises SystemExit when the (lower-cased) suffix is not allowed.
require_ext(ext, allowed, kind) ==
  IF ext \notin allowed
    THEN Raise("SystemExit", "Unsupported " \o kind \o " extension: " \o ext)
    ELSE Return("ok")

\* ------------------------------------------------------------ file names
\* A file name is a sequence of one-character strings.
RECURSIVE Join(_)
Join(cs) == IF cs = <<>> THEN "" ELSE Head(cs) \o Join(Tail(cs))

\* str.lower() on one character, for the letters that occur in the names.
LowerChar(c) ==
  CASE c = "M" -> "m"
    [] c = "P" -> "p"
    [] c = "T" -> "t"
    [] c = "X" -> "x"
    [] c = "W" -> "w"
    [] c = "A" -> "a"
    [] c = "V" -> "v"
    [] OTHER -> c

\* A lower() that leaves the name as it is.
LowerKeepCase(cs) == cs

\* str.lower()
Lower(cs) == [i \in 1..Len(cs) |-> LowerChar(cs[i])]

\* The index of the last '.' of a name, 0 when there is none: str.rfind('.') + 1.
RECURSIVE RFindDot(_)
RFindDot(cs) ==
  IF cs = <<>> THEN 0
  ELSE IF cs[Len(cs)] = "." THEN Len(cs)
  ELSE RFindDot(SubSeq(cs, 1, Len(cs) - 1))

\* PurePath.suffix of a name: from its last '.' on, unless that dot is the
\* first or the last character.
Suffix(cs) ==
  IF RFindDot(cs) > 1 /\ RFindDot(cs) < Len(cs)
    THEN SubSeq(cs, RFindDot(cs), Len(cs))
    ELSE <<>>

\* PurePath.stem of a name.
Stem(cs) == SubSeq(cs, 1, Len(cs) - Len(Suffix(cs)))

\* utils._suffix: Path(path).suffix.lower(), as a string.
suffix(cs) == Join(Lower(Suffix(cs)))

\* The characters werkzeug's secure_filename keeps: [A-Za-z0-9_.-].
SafeChars ==
  {"m", "p", "4", "t", "x", "w", "a", "v", "M", "P", "T", "X", "W", "A", "V",
   "_", ".", "-"}

\* '_'.join(filename.split()) with the path separators turned into spaces:
\* white space at the ends is dropped and each inner run becomes one '_'.
RECURSIVE JoinWords(_, _)
JoinWords(cs, started) ==
  IF cs = <<>> THEN <<>>
  ELSE IF Head(cs) \in {" ", "/"}
    THEN IF started /\ \E i \in 1..Len(cs) : cs[i] \notin {" ", "/"}
           THEN IF Len(cs) > 1 /\ cs[2] \in {" ", "/"}
                  THEN JoinWords(Tail(cs), started)
                  ELSE <<"_">> \o JoinWords(Tail(cs), started)
           ELSE JoinWords(Tail(cs), started)
    ELSE <<Head(cs)>> \o JoinWords(Tail(cs), TRUE)

\* str.strip('._')
RECURSIVE StripDots(_)
StripDots(cs) ==
  IF cs # <<>> /\ Head(cs) \in {".", "_"} THEN StripDots(Tail(cs))
  ELSE IF cs # <<>> /\ cs[Len(cs)] \in {".", "_"}
    THEN StripDots(SubSeq(cs, 1, Len(cs) - 1))
  ELSE cs

\* werkzeug.utils.secure_filename
secure_filename(cs) ==
  StripDots(SelectSeq(JoinWords(cs, FALSE), LAMBDA c : c \in SafeChars))

\* _ALLOWED_VIDEO_EXT
ALLOWED_VIDEO_EXT == VIDEO_EXTENSIONS

\* _save_upload: abort(400), or the suffix of the stored file (its name is a
\* fresh uuid followed by the suffix).
save_upload(filename, allowed_exts) ==
  IF filename = <<>> THEN [kind |-> "abort", val |-> None, msg |-> "Empty upload"]
  ELSE IF /\ suffix(secure_filename(filename)) # ""
          /\ allowed_exts # {}
          /\ suffix(secure_filename(filename)) \notin allowed_exts
    THEN [kind |-> "abort", val |-> None,
          msg |-> "Unsupported extension: " \o suffix(secure_filename(filename))]
  ELSE Return(suffix(secure_filename(filename)))

\* ------------------------------------------------- inputs of the pipeline
\* File names of the uploaded 'video' part.
UploadNames ==
  { <<"m", ".", "m", "p", "4">>,
    <<"m", ".", "M", "P", "4">>,
    <<"m">>,
    <<"m", ".", "t", "x", "t">>,
    <<".", "m", "p", "4">>,
    <<"m", ".", "m", "p", "4", ".">>,
    <<" ", "m", " ", " ", "a", ".", "m", "p", "4">>,
    <<"/", "#", ".", "m", "p", "4">>,
    <<>> }

\* Suffixes of the stored upload: _save_upload lets through an allowed
\* suffix, and also a file name without any suffix.
UploadExts ==
  {save_upload(n, ALLOWED_VIDEO_EXT).val[1] :
     n \in {u \in UploadNames : save_upload(u, ALLOWED_VIDEO_EXT).kind = "return"}}

\* Outcomes of the ffmpeg subprocess: exit 0 with the file written, exit 0
\* without a file, non-zero exit (CalledProcessError).
FfmpegOutcomes == {"ok", "nofile", "fail"}

\* Outcomes of whisper load_model/transcribe: a transcript, or an exception
\* whose str() may be empty.
WhisperOutcomes ==
  {Return("transcript"), Raise("Exception", "whisper failed"), Raise("Exception", "")}

\* Outcomes of generate_summary_text: a summary, '', None, or an exception
\* of the backend other than ValueError.
SummaryOutcomes ==
  {[kind |-> "return", val |-> Some("summary"), msg |-> ""],
   [kind |-> "return", val |-> Some(""), msg |-> ""],
   [kind |-> "return", val |-> None, msg |-> ""],
   Raise("Exception", "backend failed")}

\* Outcomes of video_path.unlink in the cleanup.
UnlinkOutcomes == {Return("ok"), Raise("Exception", "unlink failed")}

VARIABLES
  messages,     \* job.messages: sequence of [type, text]
  result,       \* job.result: Optional record
  error,        \* job.error: Optional string
  done,         \* job.done
  lockOwner,    \* holder of job._lock: 0 when free, else the subscriber
  runnerPc,     \* position of the background thread in _run_pipeline_job
  videoExt,     \* suffix of video_path
  videoExists,  \* video_path.exists()
  audioExists,  \* audio_path.exists()
  transcript,   \* local 'transcript' of _run_pipeline_job
  summary,      \* local 'summary' of _run_pipeline_job
  pending,      \* exception in flight in the thread: Optional [kind, msg]
  failedStage,  \* history: the stage (1..3) that raised, 0 when none did
  stagesRun,    \* history: the stages that were called
  subPc,        \* position of each subscriber's generator
  idx,          \* cursor of each subscriber's generator
  received,     \* items each subscriber's consumer was handed, in order
  pollAnswer,   \* last answer of pipeline_result
  JOBS,         \* _JOBS: the registry, a function from job ids to jobs
  JOBS_LOCK,    \* holder of _JOBS_LOCK: 0 when free, else the creating request
  newJobPc,     \* position of each request inside _new_job
  newJobId,     \* local 'job_id' of each _new_job call
  lookup,       \* answer of the last _get_job: Optional [route, id, code, job]
  sPc,          \* position inside generate_summary_text
  sText,        \* transcript_text: a sequence of characters
  sCtx,         \* context_length: Optional integer
  sChunks,      \* local 'chunks'
  sIndex,       \* local 'index' of the loop over the chunks
  sSummaries,   \* local 'summaries'
  sRequests,    \* history: the chunk indices handed to the backend, in order
  sReturn,      \* what the call returned or raised: Optional outcome
  fsFiles,      \* the files of the directory: a function from names to contents
  fsLinesep,    \* os.linesep of the platform
  fsFfmpegRuns, \* history: number of ffmpeg subprocesses run
  fsWhisperRuns,\* history: number of calls of the Whisper model
  fsCall,       \* the last call: Optional [fn, arg, out]
  fsCalls,      \* history: number of calls made
  srtPc,        \* position inside segments_to_srt
  srtSegments,  \* argument 'segments'
  srtSimple,    \* argument 'simple_time'
  srtIndex,     \* loop variable 'i'
  srtLines,     \* local 'lines'
  srtOut        \* the returned string: Optional

jobVars == <<messages, result, error, done>>

runnerVars ==
  <<runnerPc, videoExt, videoExists, audioExists, transcript, summary,
    pending, failedStage, stagesRun>>

subVars == <<subPc, idx, received>>

regVars == <<JOBS, JOBS_LOCK, newJobPc, newJobId, lookup>>

sumVars == <<sPc, sText, sCtx, sChunks, sIndex, sSummaries, sRequests, sReturn>>

fileVars == <<fsFiles, fsLinesep, fsFfmpegRuns, fsWhisperRuns, fsCall, fsCalls>>

srtVars == <<srtPc, srtSegments, srtSimple, srtIndex, srtLines, srtOut>>

pipeVars == <<jobVars, lockOwner, runnerVars, subVars, pollAnswer>>

vars == <<messages, result, error, done, lockOwner, runnerPc, videoExt,
          videoExists, audioExists, transcript, summary, pending,
          failedStage, stagesRun, subPc, idx, received, pollAnswer,
          JOBS, JOBS_LOCK, newJobPc, newJobId, lookup,
          sPc, sText, sCtx, sChunks, sIndex, sSummaries, sRequests, sReturn,
          fsFiles, fsLinesep, fsFfmpegRuns, fsWhisperRuns, fsCall, fsCalls,
          srtPc, srtSegments, srtSimple, srtIndex, srtLines, srtOut>>

\* ------------------------------------------------------------ PipelineJob
\* A push that inserts the event at the head of the list.
pushFront(msgs, typ, text) == <<[type |-> typ, text |-> text]>> \o msgs

\* A push that loses the 'ok' events.
pushDropOk(msgs, typ, text) ==
  IF typ = "ok" THEN msgs ELSE Append(msgs, [type |-> typ, text |-> text])

\* A push into a list that keeps only the latest three events.
pushRing(msgs, typ, text) ==
  IF Len(msgs) >= 3
    THEN Append(Tail(msgs), [type |-> typ, text |-> text])
    ELSE Append(msgs, [type |-> typ, text |-> text])

\* PipelineJob.push: the new value of messages.
push(msgs, typ, text) == Append(msgs, [type |-> typ, text |-> text])

\* A complete that assigns result only when one is given.
completeKeepResult(res, err) ==
  [result |-> IF res = None THEN result ELSE res, error |-> err, done |-> TRUE]

\* A complete that sets done only for a success.
completeDoneOnSuccess(res, err) ==
  [result |-> res, error |-> err, done |-> res # None]

\* PipelineJob.complete: the new values of (result, error, done).
complete(res, err) == [result |-> res, error |-> err, done |-> TRUE]

\* A job right after PipelineJob(job_id), its thread not yet started, with
\* no subscriber and no poll.
PipeInit ==
  /\ messages = <<>>
  /\ result = None
  /\ error = None
  /\ done = FALSE
  /\ lockOwner = 0
  /\ runnerPc = "idle"
  /\ videoExt = ""
  /\ videoExists = FALSE
  /\ audioExists = FALSE
  /\ transcript = None
  /\ summary = None
  /\ pending = None
  /\ failedStage = 0
  /\ stagesRun = {}
  /\ subPc = [s \in Subs |-> "idle"]
  /\ idx = [s \in Subs |-> 0]
  /\ received = [s \in Subs |-> <<>>]
  /\ pollAnswer = None

\* The registry with no request in _new_job or _get_job.
RegInit ==
  /\ JOBS = <<>>
  /\ JOBS_LOCK = 0
  /\ newJobPc = [c \in Creators |-> "idle"]
  /\ newJobId = [c \in Creators |-> 0]
  /\ lookup = None

\* No call of generate_summary_text under way.
SumIdle ==
  /\ sPc = "idle"
  /\ sText = <<>>
  /\ sCtx = None
  /\ sChunks = <<>>
  /\ sIndex = 0
  /\ sSummaries = <<>>
  /\ sRequests = <<>>
  /\ sReturn = None

\* No call of extract_audio or transcribe_audio made, in an empty directory.
FileIdle ==
  /\ fsFiles = <<>>
  /\ fsLinesep = <<"\n">>
  /\ fsFfmpegRuns = 0
  /\ fsWhisperRuns = 0
  /\ fsCall = None
  /\ fsCalls = 0

\* No call of segments_to_srt under way.
SrtIdle ==
  /\ srtPc = "idle"
  /\ srtSegments = <<>>
  /\ srtSimple = FALSE
  /\ srtIndex = 0
  /\ srtLines = <<>>
  /\ srtOut = None

Init == PipeInit /\ RegInit /\ SumIdle /\ FileIdle /\ SrtIdle

\* ------------------------------------------------------- pipeline_start
\* Saves the upload, creates the job and starts the thread.
pipeline_start ==
  /\ runnerPc = "idle"
  /\ \E ext \in UploadExts : videoExt' = ext
  /\ videoExists' = TRUE
  /\ runnerPc' = "push_info"
  /\ UNCHANGED <<jobVars, lockOwner, audioExists, transcript, summary,
                 pending, failedStage, stagesRun, subVars, pollAnswer, regVars, sumVars,
                 fileVars, srtVars>>

\* ---------------------------------------------------- _run_pipeline_job
\* job.push(typ, text) by the thread at position 'at', continuing at 'to'.
\* 'with self._lock' blocks while a subscriber holds the lock.
JobPush(at, typ, text, to) ==
  /\ runnerPc = at
  /\ lockOwner = 0
  /\ messages' = push(messages, typ, text)
  /\ runnerPc' = to
  /\ UNCHANGED <<result, error, done, lockOwner, videoExt, videoExists,
                 audioExists, transcript, summary, pending, failedStage,
                 stagesRun, subVars, pollAnswer, regVars, sumVars,
                 fileVars, srtVars>>

\* job.complete(res, err) by the thread at position 'at', continuing at 'to'.
JobComplete(at, res, err, to) ==
  /\ runnerPc = at
  /\ lockOwner = 0
  /\ result' = complete(res, err).result
  /\ error' = complete(res, err).error
  /\ done' = complete(res, err).done
  /\ runnerPc' = to
  /\ UNCHANGED <<messages, lockOwner, videoExt, videoExists, audioExists,
                 transcript, summary, pending, failedStage, stagesRun,
                 subVars, pollAnswer, regVars, sumVars,
                 fileVars, srtVars>>

\* Where a raised exception takes the thread: 'except Exception' catches
\* every Exception; any other BaseException goes straight to 'finally'.
Handler(exc) == IF exc.kind = "Exception" THEN "except_push" ELSE "cleanup"

PushInfo ==
  JobPush("push_info", "info", "Starting pipeline: video -> audio -> transcript -> summary",
          "push_step1")

PushStep1 == JobPush("push_step1", "step", "Extracting audio...", "stage1")

\* extract_audio(video_path, outdir) under one outcome of ffmpeg.
extract_audio(vExists, vExt, aExists, ffmpeg) ==
  IF ~vExists THEN Raise("SystemExit", "Video not found")
  ELSE IF require_ext(vExt, VIDEO_EXTENSIONS, "video").kind # "return"
    THEN require_ext(vExt, VIDEO_EXTENSIONS, "video")
  ELSE IF aExists THEN Return(TRUE)
  ELSE IF ffmpeg = "fail" THEN Raise("Exception", "ffmpeg returned non-zero exit status")
  ELSE Return(ffmpeg = "ok")

\* Stage 1: the call of extract_audio and the defensive existence check.
\* The value returned by the model's extract_audio says whether the audio
\* file exists afterwards.
Stage1 ==
  /\ runnerPc = "stage1"
  /\ \E ffmpeg \in FfmpegOutcomes :
       LET r == extract_audio(videoExists, videoExt, audioExists, ffmpeg)
           out == IF r.kind = "return" /\ ~r.val[1]
                    THEN Raise("Exception", "Audio file missing after extraction")
                    ELSE r
       IN /\ audioExists' = (r.kind = "return" /\ r.val[1])
          /\ IF out.kind = "return"
               THEN /\ runnerPc' = "push_ok1"
                    /\ UNCHANGED <<pending, failedStage>>
               ELSE /\ runnerPc' = Handler(out)
                    /\ pending' = Some([kind |-> out.kind, msg |-> out.msg])
                    /\ failedStage' = 1
  /\ stagesRun' = stagesRun \cup {1}
  /\ UNCHANGED <<jobVars, lockOwner, videoExt, videoExists, transcript,
                 summary, subVars, pollAnswer, regVars, sumVars,
                 fileVars, srtVars>>

PushOk1 == JobPush("push_ok1", "ok", "Audio ready", "push_step2")

PushStep2 == JobPush("push_step2", "step", "Transcribing with Whisper model...", "stage2")

\* transcribe_audio(audio_path, outdir, whisper_model) under one outcome of
\* the model; the audio file is the .wav extract_audio returned.
transcribe_audio(aExists, aExt, whisper) ==
  IF ~aExists THEN Raise("SystemExit", "Audio not found")
  ELSE IF require_ext(aExt, AUDIO_EXTENSIONS, "audio").kind # "return"
    THEN require_ext(aExt, AUDIO_EXTENSIONS, "audio")
  ELSE whisper

Stage2 ==
  /\ runnerPc = "stage2"
  /\ \E whisper \in WhisperOutcomes :
       LET out == transcribe_audio(audioExists, ".wav", whisper)
       IN IF out.kind = "return"
            THEN /\ transcript' = out.val
                 /\ runnerPc' = "push_ok2"
                 /\ UNCHANGED <<pending, failedStage>>
            ELSE /\ runnerPc' = Handler(out)
                 /\ pending' = Some([kind |-> out.kind, msg |-> out.msg])
                 /\ failedStage' = 2
                 /\ UNCHANGED transcript
  /\ stagesRun' = stagesRun \cup {2}
  /\ UNCHANGED <<jobVars, lockOwner, videoExt, videoExists, audioExists,
                 summary, subVars, pollAnswer, regVars, sumVars,
                 fileVars, srtVars>>

PushOk2 == JobPush("push_ok2", "ok", "Transcription completed", "push_step3")

PushStep3 == JobPush("push_step3", "step", "Generating summary with model...", "stage3")

\* Stage 3: the call of generate_summary_text and the 'if not summary' check.
Stage3 ==
  /\ runnerPc = "stage3"
  /\ \E r \in SummaryOutcomes :
       LET out == IF r.kind = "return" /\ ~Truthy(r.val)
                    THEN Raise("Exception", "Summary generation returned empty result")
                    ELSE r
       IN IF out.kind = "return"
            THEN /\ summary' = out.val
                 /\ runnerPc' = "push_ok3"
                 /\ UNCHANGED <<pending, failedStage>>
            ELSE /\ runnerPc' = Handler(out)
                 /\ pending' = Some([kind |-> out.kind, msg |-> out.msg])
                 /\ failedStage' = 3
                 /\ UNCHANGED summary
  /\ stagesRun' = stagesRun \cup {3}
  /\ UNCHANGED <<jobVars, lockOwner, videoExt, videoExists, audioExists,
                 transcript, subVars, pollAnswer, regVars, sumVars,
                 fileVars, srtVars>>

PushOk3 == JobPush("push_ok3", "ok", "Summary completed", "complete_ok")

\* The success payload handed to job.complete.
SuccessResult ==
  [audio_id |-> "audio.wav", transcript |-> transcript[1], summary |-> summary[1]]

CompleteOk == JobComplete("complete_ok", Some(SuccessResult), None, "cleanup")

\* except Exception as e: job.push('error', ...); job.complete(None, str(e))
ExceptPush ==
  /\ pending # None
  /\ JobPush("except_push", "error", "Pipeline failed: " \o pending[1].msg,
             "except_complete")

ExceptComplete ==
  /\ runnerPc = "except_complete"
  /\ lockOwner = 0
  /\ result' = complete(None, Some(pending[1].msg)).result
  /\ error' = complete(None, Some(pending[1].msg)).error
  /\ done' = complete(None, Some(pending[1].msg)).done
  /\ pending' = None
  /\ runnerPc' = "cleanup"
  /\ UNCHANGED <<messages, lockOwner, videoExt, videoExists, audioExists,
                 transcript, summary, failedStage, stagesRun, subVars,
                 pollAnswer, regVars, sumVars,
                 fileVars, srtVars>>

\* finally: if video_path.exists(): video_path.unlink(missing_ok=True)
\* An exception still in flight (SystemExit) is re-raised when the finally
\* block is left, which ends the thread.
Cleanup ==
  /\ runnerPc = "cleanup"
  /\ IF videoExists
       THEN \E u \in UnlinkOutcomes :
              IF u.kind = "return"
                THEN /\ videoExists' = FALSE
                     /\ runnerPc' = "ended"
                     /\ UNCHANGED summary
                ELSE /\ runnerPc' = "cleanup_push"
                     /\ UNCHANGED <<videoExists, summary>>
       ELSE /\ runnerPc' = "ended"
            /\ UNCHANGED <<videoExists, summary>>
  /\ UNCHANGED <<jobVars, lockOwner, videoExt, audioExists, transcript,
                 pending, failedStage, stagesRun, subVars, pollAnswer, regVars, sumVars,
                 fileVars, srtVars>>

CleanupPush ==
  JobPush("cleanup_push", "error", "Failed to cleanup uploaded video unlink failed",
          "cleanup_complete")

CleanupComplete ==
  JobComplete("cleanup_complete", None, Some("unlink failed"), "ended")

Runner ==
  \/ PushInfo \/ PushStep1 \/ Stage1 \/ PushOk1
  \/ PushStep2 \/ Stage2 \/ PushOk2
  \/ PushStep3 \/ Stage3 \/ PushOk3 \/ CompleteOk
  \/ ExceptPush \/ ExceptComplete
  \/ Cleanup \/ CleanupPush \/ CleanupComplete

\* ------------------------------------------- pipeline_events.event_stream
\* The synthetic final item of a stream.
DonePayload(res, err) == [type |-> "done", result |-> res, error |-> err]

\* A generator that sends the final payload without looking at job.done.
StreamBranchNoDoneCheck(msgs, i, isDone) ==
  IF i < Len(msgs) THEN "event" ELSE "done"

\* What the generator does next while it holds the lock: yield the event at
\* its cursor, yield the final payload, or wait on the condition.
StreamBranch(msgs, i, isDone) ==
  IF i < Len(msgs) THEN "event"
  ELSE IF isDone THEN "done"
  ELSE "wait"

\* The body of 'with job._lock' run by subscriber s up to its next
\* suspension: a yield keeps the lock, job._cv.wait releases it.
StreamBody(s) ==
  LET b == StreamBranch(messages, idx[s], done)
  IN /\ b = "event" =>
          /\ received' = [received EXCEPT ![s] = Append(@, messages[idx[s] + 1])]
          /\ idx' = [idx EXCEPT ![s] = @ + 1]
          /\ subPc' = [subPc EXCEPT ![s] = "yielded"]
          /\ lockOwner' = s
     /\ b = "done" =>
          /\ received' = [received EXCEPT ![s] = Append(@, DonePayload(result, error))]
          /\ subPc' = [subPc EXCEPT ![s] = "yielded_done"]
          /\ lockOwner' = s
          /\ UNCHANGED idx
     /\ b = "wait" =>
          /\ subPc' = [subPc EXCEPT ![s] = "waiting"]
          /\ lockOwner' = 0
          /\ UNCHANGED <<idx, received>>

\* GET /api/pipeline/events/<job_id>: the generator is created with idx = 0.
Subscribe(s) ==
  /\ subPc[s] = "idle"
  /\ runnerPc # "idle"
  /\ subPc' = [subPc EXCEPT ![s] = "acquire"]
  /\ idx' = [idx EXCEPT ![s] = 0]
  /\ UNCHANGED <<jobVars, lockOwner, runnerVars, received, pollAnswer, regVars, sumVars,
                 fileVars, srtVars>>

\* 'with job._lock:' at the top of the loop, then the body.
StreamAcquire(s) ==
  /\ subPc[s] = "acquire"
  /\ lockOwner = 0
  /\ StreamBody(s)
  /\ UNCHANGED <<jobVars, runnerVars, pollAnswer, regVars, sumVars,
                 fileVars, srtVars>>

\* The consumer asks for the next item of a generator suspended at the yield
\* of an event: the inner loop goes on, the lock still held.
StreamResume(s) ==
  /\ subPc[s] = "yielded"
  /\ lockOwner = s
  /\ StreamBody(s)
  /\ UNCHANGED <<jobVars, runnerVars, pollAnswer, regVars, sumVars,
                 fileVars, srtVars>>

\* The consumer asks for the next item after the final payload: return,
\* which leaves the with block and ends the stream.
StreamReturn(s) ==
  /\ subPc[s] = "yielded_done"
  /\ lockOwner = s
  /\ subPc' = [subPc EXCEPT ![s] = "ended"]
  /\ lockOwner' = 0
  /\ UNCHANGED <<jobVars, runnerVars, idx, received, pollAnswer, regVars, sumVars,
                 fileVars, srtVars>>

\* job._cv.wait(timeout=1.0) returns (notified or timed out): it takes the
\* lock again, the with block is left, and the loop starts over.
StreamWake(s) ==
  /\ subPc[s] = "waiting"
  /\ lockOwner = 0
  /\ subPc' = [subPc EXCEPT ![s] = "acquire"]
  /\ UNCHANGED <<jobVars, lockOwner, runnerVars, idx, received, pollAnswer, regVars, sumVars,
                 fileVars, srtVars>>

Subscriber(s) ==
  \/ Subscribe(s) \/ StreamAcquire(s) \/ StreamResume(s)
  \/ StreamReturn(s) \/ StreamWake(s)

\* -------------------------------------------------------- pipeline_result
\* A poll that does not look at job.done.
PollStatusNoPending(isDone, res, err) ==
  IF Truthy(err) THEN [status |-> "error", code |-> 502, result |-> None, error |-> err]
  ELSE [status |-> "done", code |-> 200, result |-> res, error |-> None]

\* The answer of GET /api/pipeline/result/<job_id>.
PollStatus(isDone, res, err) ==
  IF ~isDone THEN [status |-> "pending", code |-> 200, result |-> None, error |-> None]
  ELSE IF Truthy(err) THEN [status |-> "error", code |-> 502, result |-> None, error |-> err]
  ELSE [status |-> "done", code |-> 200, result |-> res, error |-> None]

pipeline_result ==
  /\ runnerPc # "idle"
  /\ lockOwner = 0
  /\ pollAnswer' = Some(PollStatus(done, result, error))
  /\ UNCHANGED <<jobVars, lockOwner, runnerVars, subVars, regVars, sumVars,
                 fileVars, srtVars>>

Next ==
  \/ pipeline_start
  \/ Runner
  \/ \E s \in Subs : Subscriber(s)
  \/ pipeline_result

Spec == Init /\ [][Next]_vars

\* The consumers keep asking for items and a thread that can take the lock
\* infinitely often eventually gets it.
Fairness ==
  /\ WF_vars(Runner)
  /\ \A s \in Subs :
       /\ SF_vars(StreamAcquire(s))
       /\ SF_vars(StreamWake(s))
       /\ WF_vars(StreamResume(s))
       /\ WF_vars(StreamReturn(s))

\* The same operations, with only the subscribers of LiveSubs connecting.
LiveNext ==
  \/ pipeline_start
  \/ Runner
  \/ \E s \in LiveSubs : Subscriber(s)
  \/ pipeline_result

FairSpec == Init /\ [][LiveNext]_vars /\ Fairness

\* ------------------------------------------------- _JOBS, _new_job, _get_job
\* Values uuid.uuid4().hex can take; one more than there are creations, so
\* that some id is never registered.
IdPool == 1..(NCreators + 1)

\* PipelineJob(job_id): the dataclass defaults.
FreshJob(id) ==
  [job_id |-> id, messages |-> <<>>, result |-> None, error |-> None, done |-> FALSE]

\* An assignment that replaces the registry by one holding only the new job.
RegistryReplace(jobs, id, job) == [k \in {id} |-> job]

\* _JOBS[job_id] = job
RegistryPut(jobs, id, job) ==
  [k \in DOMAIN jobs \cup {id} |-> IF k = id THEN job ELSE jobs[k]]

\* The ids generated so far; uuid4 values are taken to be distinct.
GeneratedIds == {newJobId[c] : c \in {d \in Creators : newJobPc[d] # "idle"}}

\* job_id = uuid.uuid4().hex; job = PipelineJob(job_id)
NewJobCreate(c) ==
  /\ newJobPc[c] = "idle"
  /\ \E id \in IdPool \ GeneratedIds : newJobId' = [newJobId EXCEPT ![c] = id]
  /\ newJobPc' = [newJobPc EXCEPT ![c] = "lock"]
  /\ UNCHANGED <<JOBS, JOBS_LOCK, lookup, pipeVars, sumVars,
                 fileVars, srtVars>>

\* with _JOBS_LOCK:
NewJobAcquire(c) ==
  /\ newJobPc[c] = "lock"
  /\ JOBS_LOCK = 0
  /\ JOBS_LOCK' = c
  /\ newJobPc' = [newJobPc EXCEPT ![c] = "insert"]
  /\ UNCHANGED <<JOBS, newJobId, lookup, pipeVars, sumVars,
                 fileVars, srtVars>>

\* _JOBS[job_id] = job, the lock released on leaving the with block; return job
NewJobInsert(c) ==
  /\ newJobPc[c] = "insert"
  /\ JOBS_LOCK = c
  /\ JOBS' = RegistryPut(JOBS, newJobId[c], FreshJob(newJobId[c]))
  /\ JOBS_LOCK' = 0
  /\ newJobPc' = [newJobPc EXCEPT ![c] = "returned"]
  /\ UNCHANGED <<newJobId, lookup, pipeVars, sumVars,
                 fileVars, srtVars>>

new_job(c) == NewJobCreate(c) \/ NewJobAcquire(c) \/ NewJobInsert(c)

\* A lookup that hands back whatever _JOBS.get returned, without the abort.
get_jobNoAbort(jobs, id) ==
  [code |-> 200, job |-> IF id \in DOMAIN jobs THEN Some(jobs[id]) ELSE None]

\* _get_job: _JOBS.get(job_id) under the lock, abort(404) when there is none.
get_job(jobs, id) ==
  IF id \in DOMAIN jobs
    THEN [code |-> 200, job |-> Some(jobs[id])]
    ELSE [code |-> 404, job |-> None]

\* The routes that start with _get_job(job_id).
JobRoutes == {"events", "result"}

\* GET /api/pipeline/events/<job_id> or /api/pipeline/result/<job_id>, up to
\* the answer of _get_job.
GetJob(route, id) ==
  /\ JOBS_LOCK = 0
  /\ lookup' = Some([route |-> route, id |-> id,
                     code |-> get_job(JOBS, id).code,
                     job |-> get_job(JOBS, id).job])
  /\ UNCHANGED <<JOBS, JOBS_LOCK, newJobPc, newJobId, pipeVars, sumVars,
                 fileVars, srtVars>>

RegNext ==
  \/ \E c \in Creators : new_job(c)
  \/ \E route \in JobRoutes, id \in IdPool : GetJob(route, id)

RegSpec == Init /\ [][RegNext]_vars

\* ------------------------------------------------------------ summarize.py
\* Characters are one-character strings; a text is a sequence of them. The
\* transcripts have pairwise distinct characters, so that a slice shows
\* which positions it was taken from.
Alphabet ==
  << "a", "b", "c", "d", "e", "f", "g", "h", "i", "j", "k", "l", "m",
     "n", "o", "p", "q", "r", "s", "t", "u", "v", "w", "x", "y", "z" >>

Texts == {SubSeq(Alphabet, 1, n) : n \in 0..MaxTextLen}

\* Values of context_length: None, or an integer.
CtxValues == {None} \cup {Some(k) : k \in (0 - 1)..(MaxTextLen + 1)}

Min(a, b) == IF a <= b THEN a ELSE b

Max(a, b) == IF a >= b THEN a ELSE b

\* A slice that takes one character too many.
SliceInclusive(t, a, b) == SubSeq(t, a + 1, Min(b + 1, Len(t)))

\* Python's t[a:b] for 0 <= a <= b.
Slice(t, a, b) == SubSeq(t, a + 1, Min(b, Len(t)))

\* for start in range(start, len(text), step): yield text[start : start + step]
RECURSIVE SplitFrom(_, _, _)
SplitFrom(text, start, step) ==
  IF start >= Len(text) THEN <<>>
  ELSE <<Slice(text, start, start + step)>> \o SplitFrom(text, start + step, step)

\* _split_transcript
split_transcript(text, context_length) ==
  SplitFrom(text, 0, Max(context_length, 1))

\* The chunk list of generate_summary_text.
Chunks(text, ctx) ==
  IF ctx # None /\ ctx[1] # 0 /\ ctx[1] > 0 /\ Len(text) > ctx[1]
    THEN split_transcript(text, ctx[1])
    ELSE <<text>>

\* What the call of litellm's completion can do for one chunk: a response
\* with a string content, with a content of white space only, with a
\* content that is not a string, a response without the 'choices' entry,
\* a ValueError, or another exception (the backend cannot be reached).
BackendOutcomes == {"content", "blank", "nonstr", "malformed", "ValueError", "error"}

WhiteSpace == {" ", "\n", "\t"}

\* The string content of the response for a chunk.
Content(chunk, outcome) ==
  IF outcome = "blank" THEN <<" ", "\n">>
  ELSE <<" ", "S", ":">> \o chunk \o <<"\n">>

RECURSIVE lstrip(_)
lstrip(t) == IF t # <<>> /\ Head(t) \in WhiteSpace THEN lstrip(Tail(t)) ELSE t

RECURSIVE rstrip(_)
rstrip(t) ==
  IF t # <<>> /\ t[Len(t)] \in WhiteSpace THEN rstrip(SubSeq(t, 1, Len(t) - 1)) ELSE t

\* str.strip()
strip(t) == rstrip(lstrip(t))

\* _request_summary for one chunk under one outcome of completion: only a
\* ValueError is caught.
request_summary(chunk, outcome) ==
  IF outcome = "ValueError" THEN [kind |-> "return", val |-> None, msg |-> ""]
  ELSE IF outcome = "error" THEN Raise("Exception", "backend failed")
  ELSE IF outcome = "malformed" THEN Raise("Exception", "'choices'")
  ELSE IF outcome = "nonstr" THEN [kind |-> "return", val |-> None, msg |-> ""]
  ELSE Return(strip(Content(chunk, outcome)))

\* A join whose headings count from zero (enumerate without start=1).
RECURSIVE JoinSegmentsFromZero(_, _)
JoinSegmentsFromZero(summaries, i) ==
  IF i > Len(summaries) THEN <<>>
  ELSE (IF i > 1 THEN <<"\n\n">> ELSE <<>>)
         \o <<"### Segment ", ToString(i - 1), "\n\n">> \o summaries[i]
         \o JoinSegmentsFromZero(summaries, i + 1)

\* '\n\n'.join(f'### Segment {idx}\n\n{summary}' for idx, summary in
\* enumerate(summaries, start=1)), from the idx-th summary on.
RECURSIVE JoinSegments(_, _)
JoinSegments(summaries, i) ==
  IF i > Len(summaries) THEN <<>>
  ELSE (IF i > 1 THEN <<"\n\n">> ELSE <<>>)
         \o <<"### Segment ", ToString(i), "\n\n">> \o summaries[i]
         \o JoinSegments(summaries, i + 1)

\* The value generate_summary_text returns for its list of summaries.
Assemble(summaries) ==
  IF Len(summaries) = 0 THEN None
  ELSE IF Len(summaries) = 1 THEN Some(summaries[1])
  ELSE Some(JoinSegments(summaries, 1))

\* A call generate_summary_text(transcript_text, context_length=...).
SumInit ==
  /\ sPc = "call"
  /\ sText \in Texts
  /\ sCtx \in CtxValues
  /\ sChunks = <<>>
  /\ sIndex = 0
  /\ sSummaries = <<>>
  /\ sRequests = <<>>
  /\ sReturn = None

\* The chunk list is built and the loop entered.
SumSplit ==
  /\ sPc = "call"
  /\ sChunks' = Chunks(sText, sCtx)
  /\ sIndex' = 1
  /\ sPc' = "loop"
  /\ UNCHANGED <<sText, sCtx, sSummaries, sRequests, sReturn, pipeVars, regVars,
                 fileVars, srtVars>>

\* One turn of the loop: the request for chunk 'index', whose summary is
\* appended, or skipped when it is None; an exception leaves the call.
SumRequest ==
  /\ sPc = "loop"
  /\ Len(sChunks) <= MaxChunks
  /\ sIndex <= Len(sChunks)
  /\ \E outcome \in BackendOutcomes :
       LET r == request_summary(sChunks[sIndex], outcome)
       IN IF r.kind = "return"
            THEN /\ sSummaries' = IF r.val = None THEN sSummaries
                                  ELSE Append(sSummaries, r.val[1])
                 /\ sIndex' = sIndex + 1
                 /\ UNCHANGED <<sPc, sReturn>>
            ELSE /\ sPc' = "raised"
                 /\ sReturn' = Some(r)
                 /\ UNCHANGED <<sSummaries, sIndex>>
  /\ sRequests' = Append(sRequests, sIndex)
  /\ UNCHANGED <<sText, sCtx, sChunks, pipeVars, regVars,
                 fileVars, srtVars>>

\* After the last chunk: the result is assembled and returned.
SumFinish ==
  /\ sPc = "loop"
  /\ sIndex > Len(sChunks)
  /\ sReturn' = Some([kind |-> "return", val |-> Assemble(sSummaries), msg |-> ""])
  /\ sPc' = "returned"
  /\ UNCHANGED <<sText, sCtx, sChunks, sIndex, sSummaries, sRequests, pipeVars, regVars,
                 fileVars, srtVars>>

SumNext == SumSplit \/ SumRequest \/ SumFinish

\* The job and the registry at rest, and a call of generate_summary_text.
SumStart == PipeInit /\ RegInit /\ SumInit /\ FileIdle /\ SrtIdle

SumSpec == SumStart /\ [][SumNext]_vars

\* ------------------------------------- extract_audio and transcribe_audio
\* The two stage functions on a directory of files. The input files and the
\* output directory are one directory; a file's content is a sequence of
\* characters. UTF-8 encoding and decoding leave the characters as they are.
WavSuffix == <<".", "w", "a", "v">>

TranscriptSuffix ==
  <<".", "t", "r", "a", "n", "s", "c", "r", "i", "p", "t", ".", "t", "x", "t">>

SrtSuffix == <<".", "s", "r", "t">>

\* outdir / (video.stem + '.wav')
AudioPath(video) == Stem(video) \o WavSuffix

\* outdir / (audio_path.stem + '.transcript.txt')
TranscriptPath(audio) == Stem(audio) \o TranscriptSuffix

\* outdir / (audio_path.stem + '.srt')
SrtPath(audio) == Stem(audio) \o SrtSuffix

\* The directory after a file was written.
Put(files, name, content) ==
  [k \in DOMAIN files \cup {name} |-> IF k = name THEN content ELSE files[k]]

\* Path.write_text(text, encoding='utf-8'): text mode with newline=None
\* writes os.linesep for every '\n'.
RECURSIVE write_text(_, _)
write_text(text, linesep) ==
  IF text = <<>> THEN <<>>
  ELSE (IF Head(text) = "\n" THEN linesep ELSE <<Head(text)>>)
         \o write_text(Tail(text), linesep)

\* Path.read_text(encoding='utf-8'): text mode with newline=None reads
\* '\r\n' and a lone '\r' as '\n'.
RECURSIVE read_text(_)
read_text(data) ==
  IF data = <<>> THEN <<>>
  ELSE IF Head(data) = "\r"
    THEN IF Len(data) > 1 /\ data[2] = "\n"
           THEN <<"\n">> \o read_text(Tail(Tail(data)))
           ELSE <<"\n">> \o read_text(Tail(data))
  ELSE <<Head(data)>> \o read_text(Tail(data))

\* The input files of the directory.
FsInputs ==
  { <<"m", ".", "m", "p", "4">>,
    <<"n", ".", "M", "P", "4">>,
    <<"k", ".", "T", "X", "T">>,
    <<"q">>,
    <<"a", ".", "M", "P", "3">> }

\* The paths the two functions are called with: the inputs, a path that
\* does not exist, and the audio files extract_audio derives.
CallArgs ==
  FsInputs \cup { <<"z", ".", "m", "p", "4">> } \cup {AudioPath(v) : v \in FsInputs}

\* Texts of a transcription.
TranscriptTexts ==
  { <<"h", "i">>, <<"a", "\n", "b">>, <<"a", "\r", "\n", "b">> }

\* Outcomes of whisper.load_model(...).transcribe(...): a dict with the text
\* and with or without segments, or an exception.
FsWhisperOutcomes ==
  {Return([text |-> t, segments |-> g]) : t \in TranscriptTexts, g \in BOOLEAN}
    \cup {Raise("Exception", "whisper failed")}

\* extract_audio(video, outdir) on a directory: what it returns or raises,
\* the directory afterwards, and the number of ffmpeg runs.
ExtractAudio(files, video, ffmpeg) ==
  LET r == extract_audio(video \in DOMAIN files, suffix(video),
                         AudioPath(video) \in DOMAIN files, ffmpeg)
      ran == /\ video \in DOMAIN files
             /\ require_ext(suffix(video), VIDEO_EXTENSIONS, "video").kind = "return"
             /\ AudioPath(video) \notin DOMAIN files
  IN [out |-> IF r.kind = "return" THEN Return(AudioPath(video)) ELSE r,
      files |-> IF ran /\ ffmpeg = "ok"
                  THEN Put(files, AudioPath(video), <<"R", "I", "F", "F">> \o files[video])
                  ELSE files,
      runs |-> IF ran THEN 1 ELSE 0]

\* transcribe_audio(audio_path, outdir, whisper_model) on a directory: what
\* it returns or raises, the directory afterwards, and the number of calls
\* of the model.
TranscribeAudio(files, audio, whisper, linesep) ==
  LET valid == transcribe_audio(audio \in DOMAIN files, suffix(audio), Return("ok"))
      tp == TranscriptPath(audio)
      sp == SrtPath(audio)
  IN IF valid.kind # "return" THEN [out |-> valid, files |-> files, runs |-> 0]
     ELSE IF tp \in DOMAIN files
       THEN [out |-> Return(read_text(files[tp])), files |-> files, runs |-> 0]
     ELSE IF whisper.kind # "return" THEN [out |-> whisper, files |-> files, runs |-> 1]
     ELSE [out |-> Return(whisper.val[1].text),
           files |-> IF whisper.val[1].segments /\ sp \notin DOMAIN files
                       THEN Put(Put(files, tp, write_text(whisper.val[1].text, linesep)),
                                sp, <<"s", "r", "t">>)
                       ELSE Put(files, tp, write_text(whisper.val[1].text, linesep)),
           runs |-> 1]

\* The directory holds the inputs, and possibly an audio file and a
\* transcript of an earlier run.
FileInit ==
  /\ \E wav \in SUBSET {AudioPath(<<"m", ".", "m", "p", "4">>)},
        old \in {None} \cup {Some(t) : t \in TranscriptTexts} :
       fsFiles =
         [k \in FsInputs \cup wav
                 \cup (IF old = None THEN {}
                       ELSE {TranscriptPath(<<"a", ".", "M", "P", "3">>)}) |->
            IF k \in FsInputs THEN <<"v">>
            ELSE IF k \in wav THEN <<"o", "l", "d">>
            ELSE old[1]]
  /\ fsLinesep \in {<<"\n">>, <<"\r", "\n">>}
  /\ fsFfmpegRuns = 0
  /\ fsWhisperRuns = 0
  /\ fsCall = None
  /\ fsCalls = 0

\* A call extract_audio(video, outdir) under one outcome of ffmpeg.
FsExtract(video, ffmpeg) ==
  /\ fsCalls < MaxFsCalls
  /\ fsFiles' = ExtractAudio(fsFiles, video, ffmpeg).files
  /\ fsFfmpegRuns' = fsFfmpegRuns + ExtractAudio(fsFiles, video, ffmpeg).runs
  /\ fsCall' = Some([fn |-> "extract_audio", arg |-> video,
                      out |-> ExtractAudio(fsFiles, video, ffmpeg).out])
  /\ fsCalls' = fsCalls + 1
  /\ UNCHANGED <<fsLinesep, fsWhisperRuns, pipeVars, regVars, sumVars, srtVars>>

\* A call transcribe_audio(audio, outdir, model) under one outcome of the
\* model.
FsTranscribe(audio, whisper) ==
  /\ fsCalls < MaxFsCalls
  /\ fsFiles' = TranscribeAudio(fsFiles, audio, whisper, fsLinesep).files
  /\ fsWhisperRuns' = fsWhisperRuns + TranscribeAudio(fsFiles, audio, whisper, fsLinesep).runs
  /\ fsCall' = Some([fn |-> "transcribe_audio", arg |-> audio,
                      out |-> TranscribeAudio(fsFiles, audio, whisper, fsLinesep).out])
  /\ fsCalls' = fsCalls + 1
  /\ UNCHANGED <<fsLinesep, fsFfmpegRuns, pipeVars, regVars, sumVars, srtVars>>

FileNext ==
  \/ \E video \in CallArgs, ffmpeg \in FfmpegOutcomes : FsExtract(video, ffmpeg)
  \/ \E audio \in CallArgs, whisper \in FsWhisperOutcomes : FsTranscribe(audio, whisper)

\* The job, the registry and the summarizer at rest, and a directory.
FileStart == PipeInit /\ RegInit /\ SumIdle /\ FileInit /\ SrtIdle

FileSpec == FileStart /\ [][FileNext]_vars

\* --------------------------------------------------------- segments_to_srt
\* A Python float is an IEEE-754 binary64 value, given by the sixteen
\* hexadecimal digits of its bit pattern. Binary numerals are sequences of
\* bits, the most significant bit first.
HexDigits ==
  <<"0", "1", "2", "3", "4", "5", "6", "7", "8", "9", "a", "b", "c", "d", "e", "f">>

HexVal(c) == CHOOSE v \in 0..15 : HexDigits[v + 1] = c

Nibble(v) == <<v \div 8, (v \div 4) % 2, (v \div 2) % 2, v % 2>>

RECURSIVE HexBits(_)
HexBits(h) == IF h = <<>> THEN <<>> ELSE Nibble(HexVal(Head(h))) \o HexBits(Tail(h))

\* The value of a numeral of at most 31 bits.
RECURSIVE BitsToNat(_)
BitsToNat(b) ==
  IF b = <<>> THEN 0 ELSE 2 * BitsToNat(SubSeq(b, 1, Len(b) - 1)) + b[Len(b)]

\* The numeral without its leading zeros.
Trim(b) ==
  IF \A i \in 1..Len(b) : b[i] = 0 THEN <<>>
  ELSE SubSeq(b, CHOOSE i \in 1..Len(b) : b[i] = 1 /\ \A j \in 1..(i - 1) : b[j] = 0,
              Len(b))

ShiftRight(b, k) == IF k >= Len(b) THEN <<>> ELSE SubSeq(b, 1, Len(b) - k)

ShiftLeft(b, k) == b \o [i \in 1..k |-> 0]

LowBits(b, k) == IF k >= Len(b) THEN b ELSE SubSeq(b, Len(b) - k + 1, Len(b))

PadBits(b, n) == [i \in 1..(n - Len(b)) |-> 0] \o b

\* The sum of two numerals; carry[i] is the carry out of the i lowest bits.
BinAdd(a, b) ==
  LET n == Max(Len(a), Len(b))
      x == PadBits(a, n)
      y == PadBits(b, n)
      carry[i \in 0..n] ==
        IF i = 0 THEN 0 ELSE (x[n - i + 1] + y[n - i + 1] + carry[i - 1]) \div 2
  IN (IF carry[n] = 1 THEN <<1>> ELSE <<>>)
       \o [j \in 1..n |-> (x[j] + y[j] + carry[n - j]) % 2]

\* b * 1000, with 1000 = 2^9 + 2^8 + 2^7 + 2^6 + 2^5 + 2^3.
Times1000(b) ==
  BinAdd(BinAdd(BinAdd(ShiftLeft(b, 9), ShiftLeft(b, 8)),
                BinAdd(ShiftLeft(b, 7), ShiftLeft(b, 6))),
         BinAdd(ShiftLeft(b, 5), ShiftLeft(b, 3)))

\* The biased exponent of a float.
FloatExp(t) == BitsToNat(SubSeq(HexBits(t), 2, 12))

\* A non-negative float below 2^53 is Mantissa(t) / 2^Scale(t).
Mantissa(t) ==
  <<IF FloatExp(t) = 0 THEN 0 ELSE 1>> \o SubSeq(HexBits(t), 13, 64)

Scale(t) == 1075 - (IF FloatExp(t) = 0 THEN 1 ELSE FloatExp(t))

\* int(t)
FloatInt(t) == BitsToNat(Trim(ShiftRight(Mantissa(t), Scale(t))))

\* int((t - int(t)) * 1000): the difference is exact, the product is
\* rounded to the nearest float (53 significant bits, ties to even), and
\* int() truncates.
FracMillis(t) ==
  LET k == Scale(t)
      p == Trim(Times1000(LowBits(Mantissa(t), k)))
      q == SubSeq(p, 1, 53)
      rest == SubSeq(p, 54, Len(p))
      up == /\ rest[1] = 1
            /\ (q[53] = 1 \/ \E i \in 2..Len(rest) : rest[i] = 1)
  IN IF Len(p) <= 53 THEN BitsToNat(Trim(ShiftRight(p, k)))
     ELSE BitsToNat(Trim(ShiftRight(IF up THEN BinAdd(q, <<1>>) ELSE q,
                                    k - (Len(p) - 53))))

\* f'{n:02d}' and f'{n:03d}'
Pad2(n) == IF n < 10 THEN "0" \o ToString(n) ELSE ToString(n)

Pad3(n) ==
  IF n < 10 THEN "00" \o ToString(n)
  ELSE IF n < 100 THEN "0" \o ToString(n)
  ELSE ToString(n)

\* fmt_time: t // 3600, (t % 3600) // 60 and t % 60 are exact on floats.
fmt_time(t, simple_time) ==
  Pad2(FloatInt(t) \div 3600) \o ":" \o Pad2((FloatInt(t) % 3600) \div 60)
    \o ":" \o Pad2(FloatInt(t) % 60)
    \o (IF simple_time THEN "" ELSE "," \o Pad3(FracMillis(t)))

\* '\n'.join(lines)
RECURSIVE JoinLines(_)
JoinLines(lines) ==
  IF lines = <<>> THEN ""
  ELSE IF Len(lines) = 1 THEN lines[1]
  ELSE lines[1] \o "\n" \o JoinLines(Tail(lines))

\* The four lines of the i-th entry.
Entry(i, seg, simple_time) ==
  << ToString(i),
     fmt_time(seg.start.float, simple_time) \o " --> " \o fmt_time(seg.end.float, simple_time),
     Join(strip(seg.text)),
     "" >>

\* Times of segments: 'ms' is the time in milliseconds that the decimal
\* number says, 'float' the float nearest to it (float.hex of the number).
T0 == [ms |-> 0, float |-> <<"0", "0", "0", "0", "0", "0", "0", "0", "0", "0", "0", "0", "0", "0", "0", "0">>]

T1234 == [ms |-> 1234, float |-> <<"3", "f", "f", "3", "b", "e", "7", "6", "c", "8", "b", "4", "3", "9", "5", "8">>]

T2300 == [ms |-> 2300, float |-> <<"4", "0", "0", "2", "6", "6", "6", "6", "6", "6", "6", "6", "6", "6", "6", "6">>]

T61000 == [ms |-> 61000, float |-> <<"4", "0", "4", "e", "8", "0", "0", "0", "0", "0", "0", "0", "0", "0", "0", "0">>]

T62500 == [ms |-> 62500, float |-> <<"4", "0", "4", "f", "4", "0", "0", "0", "0", "0", "0", "0", "0", "0", "0", "0">>]

T3661500 == [ms |-> 3661500, float |-> <<"4", "0", "a", "c", "9", "b", "0", "0", "0", "0", "0", "0", "0", "0", "0", "0">>]

\* Segments of a transcription: {'start': ..., 'end': ..., 'text': ...}.
SrtSegments ==
  { [start |-> T0, end |-> T1234, text |-> <<" ", "H", "e", "l", "l", "o">>],
    [start |-> T61000, end |-> T62500, text |-> <<"W", "o", "r", "l", "d", "\n">>],
    [start |-> T3661500, end |-> T61000, text |-> <<" ">>],
    [start |-> T2300, end |-> T3661500, text |-> <<"x">>] }

\* The lists of at most n segments.
RECURSIVE SegmentLists(_)
SegmentLists(n) ==
  IF n = 0 THEN {<<>>}
  ELSE SegmentLists(n - 1)
         \cup {Append(l, g) : l \in {m \in SegmentLists(n - 1) : Len(m) = n - 1},
                              g \in SrtSegments}

\* A call segments_to_srt(segments, simple_time=...), before the loop.
SrtInit ==
  /\ srtPc = "loop"
  /\ srtSegments \in SegmentLists(MaxSegs)
  /\ srtSimple \in BOOLEAN
  /\ srtIndex = 1
  /\ srtLines = <<>>
  /\ srtOut = None

\* One turn of the loop: the four lines of segment i are appended.
SrtAppend ==
  /\ srtPc = "loop"
  /\ srtIndex <= Len(srtSegments)
  /\ srtLines' = srtLines \o Entry(srtIndex, srtSegments[srtIndex], srtSimple)
  /\ srtIndex' = srtIndex + 1
  /\ UNCHANGED <<srtPc, srtSegments, srtSimple, srtOut, pipeVars, regVars, sumVars,
                 fileVars>>

\* return '\n'.join(lines)
SrtJoin ==
  /\ srtPc = "loop"
  /\ srtIndex > Len(srtSegments)
  /\ srtOut' = Some(JoinLines(srtLines))
  /\ srtPc' = "returned"
  /\ UNCHANGED <<srtSegments, srtSimple, srtIndex, srtLines, pipeVars, regVars,
                 sumVars, fileVars>>

SrtNext == SrtAppend \/ SrtJoin

\* The rest of the program at rest, and a call of segments_to_srt.
SrtStart == PipeInit /\ RegInit /\ SumIdle /\ FileIdle /\ SrtInit

SrtSpec == SrtStart /\ [][SrtNext]_vars

\* ================================================================ claims
Last(q) == q[Len(q)]

\* The log events among the items handed to a consumer.
LogItems(r) == SelectSeq(r, LAMBDA e : e.type # "done")

\* The positions of the final payload among the items handed to a consumer.
DoneItems(r) == {i \in 1..Len(r) : r[i].type = "done"}

\* A generator suspended at a yield.
Suspended(s) == subPc[s] \in {"yielded", "yielded_done"}

\* The thread is about to call job.push or job.complete.
RunnerAtJobCall ==
  runnerPc \in {"push_info", "push_step1", "push_ok1", "push_step2", "push_ok2",
                "push_step3", "push_ok3", "complete_ok", "except_push",
                "except_complete", "cleanup_push", "cleanup_complete"}

HasErrorEvent == \E i \in 1..Len(messages) : messages[i].type = "error"

\* C1: whenever a stage raised, the thread ends with an 'error' event in the
\* log, the job done with an error recorded, and no later stage run.
C1_RaisedStageFailsJob ==
  (runnerPc = "ended" /\ failedStage # 0) =>
     /\ HasErrorEvent
     /\ done
     /\ error # None
     /\ stagesRun \subseteq 1..failedStage

\* C2: the background thread never ends while done is still false.
C2_ThreadEndImpliesDone == runnerPc = "ended" => done

\* C3: a stream hands out at most one 'done' item, as its last item, only
\* once the job is done and carrying the job's result and error; it ends
\* only after that item; and once the job is done every open stream
\* eventually ends.
C3_StreamSafety(s) ==
  /\ Cardinality(DoneItems(received[s])) <= 1
  /\ \A i \in DoneItems(received[s]) : i = Len(received[s])
  /\ DoneItems(received[s]) # {} <=> subPc[s] \in {"yielded_done", "ended"}
  /\ DoneItems(received[s]) # {} => done
  /\ subPc[s] = "ended" => done
  /\ subPc[s] = "yielded_done" => Last(received[s]) = DonePayload(result, error)

C3_DoneEndsStream ==
  /\ [](\A s \in Subs : C3_StreamSafety(s))
  /\ \A s \in Subs : (done /\ subPc[s] # "idle") ~> (subPc[s] = "ended")

C3_Witness ==
  \E s \in Subs :
    /\ subPc[s] = "ended"
    /\ Len(received[s]) >= 3
    /\ Last(received[s]).type = "done"

\* C4: once a success result is recorded it stays recorded and error stays
\* unset, whatever the cleanup does.
C4_SuccessResultKept ==
  [][(done /\ result # None /\ error = None) => (result' = result /\ error' = None)]_vars

\* C5: complete on a job that is already done leaves result, error and done
\* as they are.
C5_CompleteIdempotent ==
  [][done => (result' = result /\ error' = error /\ done')]_vars

\* C6: two subscribers that read their stream to the end received the same
\* items.
C6_SubscribersAgree ==
  \A s, t \in Subs :
    (subPc[s] = "ended" /\ subPc[t] = "ended") => received[s] = received[t]

\* C7: while a subscriber is suspended at a yield, the thread's pending
\* job.push or job.complete can proceed.
C7_ProducerNotBlocked ==
  \A s \in Subs : (Suspended(s) /\ RunnerAtJobCall) => ENABLED Runner

\* C8: while a subscriber is suspended at a yield, every other subscriber
\* that wants the lock, and a poll, can proceed.
C8_SubscribersIndependent ==
  \A s \in Subs : Suspended(s) =>
     /\ ENABLED pipeline_result
     /\ \A t \in Subs \ {s} :
          subPc[t] \in {"acquire", "waiting"} =>
             ENABLED (StreamAcquire(t) \/ StreamWake(t))

\* C9: the log events handed to a subscriber so far are exactly a prefix of
\* the job's messages, as long as the cursor says.
C9_DeliveredIsPrefix ==
  \A s \in Subs :
    /\ Len(LogItems(received[s])) = idx[s]
    /\ idx[s] <= Len(messages)
    /\ LogItems(received[s]) = SubSeq(messages, 1, idx[s])

C9_Witness ==
  \E s \in Subs :
    /\ idx[s] >= 2
    /\ Len(messages) > idx[s]
    /\ subPc[s] = "yielded"

\* C10: a job whose pipeline failed at a stage ends done, with an error and
\* without a result.
C10_FailedJobTerminal ==
  (runnerPc = "ended" /\ failedStage \in 1..3) =>
     (done /\ error # None /\ result = None)

\* C11: the recorded error of a job is never replaced by a later error.
C11_ErrorSetOnce == [][error # None => error' = error]_vars

\* The events of a run whose three stages succeed.
ExpectedLog ==
  << [type |-> "info", text |-> "Starting pipeline: video -> audio -> transcript -> summary"],
     [type |-> "step", text |-> "Extracting audio..."],
     [type |-> "ok", text |-> "Audio ready"],
     [type |-> "step", text |-> "Transcribing with Whisper model..."],
     [type |-> "ok", text |-> "Transcription completed"],
     [type |-> "step", text |-> "Generating summary with model..."],
     [type |-> "ok", text |-> "Summary completed"] >>

\* The info, step and ok events of the log.
StageEvents == SelectSeq(messages, LAMBDA e : e.type # "error")

IsPrefix(p, q) == Len(p) <= Len(q) /\ p = SubSeq(q, 1, Len(p))

\* C12: the stage events are a prefix of info, step, ok, step, ok, step, ok;
\* the step of stage k is logged before stage k is called, the ok of stage k
\* only after stage k succeeded, nothing of a later stage after a failure,
\* and a run whose stages and cleanup all succeed logs exactly the seven
\* events.
C12_StageEventsOrdered ==
  /\ IsPrefix(StageEvents, ExpectedLog)
  /\ \A k \in stagesRun : Len(StageEvents) >= 2 * k
  /\ \A k \in 1..3 :
       Len(StageEvents) >= 2 * k + 1 => (k \in stagesRun /\ failedStage # k)
  /\ failedStage # 0 => Len(StageEvents) = 2 * failedStage
  /\ result # None => StageEvents = ExpectedLog
  /\ (runnerPc \in {"complete_ok", "cleanup"} /\ failedStage = 0)
        => messages = ExpectedLog
  /\ (runnerPc = "ended" /\ failedStage = 0 /\ ~videoExists)
        => messages = ExpectedLog

C12_Witness ==
  runnerPc = "ended" /\ failedStage = 0 /\ ~videoExists /\ messages = ExpectedLog

\* C13: a job never has both an error and a result.
C13_ErrorXorResult == ~(error # None /\ result # None)

C13_Witness ==
  /\ done
  /\ error # None
  /\ result = None
  /\ \E i \in 1..Len(messages) : messages[i].text = "Summary completed"

\* C14: done starts false and never goes from true to false.
C14_DoneMonotonic == ~done /\ [][done => done']_vars

C14_Witness ==
  /\ done
  /\ runnerPc = "ended"
  /\ pollAnswer # None
  /\ \E s \in Subs : subPc[s] = "ended"

\* C15: every step keeps the entries of messages where they are and never
\* shortens the list.
C15_MessagesAppendOnly ==
  [][Len(messages') >= Len(messages)
       /\ SubSeq(messages', 1, Len(messages)) = messages]_vars

C15_Witness ==
  /\ Len(messages) >= 4
  /\ pollAnswer # None
  /\ \E s \in Subs : idx[s] >= 2

\* C16: a poll changes nothing of the job, answers 'pending' whenever done is
\* false, and its answer is the one a poll of the state it leaves gives.
C16_PollReadOnly ==
  [][pollAnswer' # pollAnswer =>
       /\ jobVars' = jobVars
       /\ pollAnswer' = Some(PollStatus(done', result', error'))
       /\ (~done => pollAnswer'[1].status = "pending")
       /\ (pollAnswer'[1].status = "pending" => pollAnswer'[1].code = 200)]_vars

C16_Witness ==
  /\ pollAnswer # None
  /\ pollAnswer[1].status = "pending"
  /\ ~done
  /\ Len(messages) >= 1

\* C17: every _new_job call that returned left its job in the registry under
\* its own id, fresh (empty log, not done, no result, no error); once all
\* calls returned the registry holds one job per call.
C17_NoCreationLost ==
  /\ \A c \in Creators :
       newJobPc[c] = "returned" =>
          /\ newJobId[c] \in DOMAIN JOBS
          /\ JOBS[newJobId[c]] = FreshJob(newJobId[c])
  /\ (\A c \in Creators : newJobPc[c] = "returned") =>
        Cardinality(DOMAIN JOBS) = NCreators
  /\ DOMAIN JOBS \subseteq GeneratedIds

C17_Witness ==
  /\ \A c \in Creators : newJobPc[c] = "returned"
  /\ Cardinality(DOMAIN JOBS) = NCreators

\* C18: a lookup answers 404 exactly for an id that is not registered and
\* registers nothing; a lookup of a registered id gets its job; and a
\* registered job stays registered, unchanged.
C18_LookupAndNoEviction ==
  [][/\ \A id \in DOMAIN JOBS : id \in DOMAIN JOBS' /\ JOBS'[id] = JOBS[id]
     /\ lookup' # lookup =>
          /\ JOBS' = JOBS
          /\ lookup'[1].code = 404 <=> lookup'[1].id \notin DOMAIN JOBS
          /\ lookup'[1].code = 200 <=> lookup'[1].id \in DOMAIN JOBS
          /\ lookup'[1].code = 200 => lookup'[1].job = Some(JOBS[lookup'[1].id])]_vars

C18_Witness ==
  /\ lookup # None
  /\ lookup[1].code = 404
  /\ lookup[1].id \notin DOMAIN JOBS
  /\ Cardinality(DOMAIN JOBS) >= 1

RECURSIVE Flatten(_)
Flatten(q) == IF q = <<>> THEN <<>> ELSE Head(q) \o Flatten(Tail(q))

\* C19: once the chunk list is built: for context_length None, zero,
\* negative or not smaller than the text's length it is the whole text
\* alone; otherwise every chunk but the last has exactly context_length
\* characters, the last has between one and context_length, the chunks
\* concatenated give the text, and there are ceil(len / context_length) of
\* them (three for 15 characters and size 5).
C19_Chunking ==
  sPc \in {"loop", "raised", "returned"} =>
    IF sCtx = None \/ sCtx[1] <= 0 \/ sCtx[1] >= Len(sText)
      THEN sChunks = <<sText>>
      ELSE /\ \A i \in 1..(Len(sChunks) - 1) : Len(sChunks[i]) = sCtx[1]
           /\ Len(sChunks) >= 1
           /\ Len(sChunks[Len(sChunks)]) \in 1..sCtx[1]
           /\ Flatten(sChunks) = sText
           /\ Len(sChunks) = (Len(sText) + sCtx[1] - 1) \div sCtx[1]
           /\ (Len(sText) = 15 /\ sCtx[1] = 5) => Len(sChunks) = 3

C19_Witness ==
  /\ sPc = "loop"
  /\ Len(sText) = 15
  /\ sCtx = Some(5)
  /\ sChunks = << <<"a", "b", "c", "d", "e">>, <<"f", "g", "h", "i", "j">>,
                  <<"k", "l", "m", "n", "o">> >>

\* C20: the chunks are requested once each, in order, and no outcome of a
\* request makes the call raise.
C20_ChunkFailureOnlySkips ==
  /\ sPc # "raised"
  /\ IsPrefix(sRequests, [i \in 1..Len(sChunks) |-> i])
  /\ sPc = "returned" => sRequests = [i \in 1..Len(sChunks) |-> i]

\* C21: when the call has ended after a request for every chunk and none of
\* the requests gave a summary, the call returned None and did not raise.
C21_AllFailedReturnsNone ==
  (/\ sPc \in {"returned", "raised"}
   /\ Len(sRequests) = Len(sChunks)
   /\ sSummaries = <<>>) =>
    /\ sPc = "returned"
    /\ sReturn = Some([kind |-> "return", val |-> None, msg |-> ""])

\* The i-th segment of the assembled result: the separator (from the second
\* segment on), the heading with the number i, and the i-th summary.
SegmentOf(i) ==
  (IF i > 1 THEN <<"\n\n">> ELSE <<>>)
    \o <<"### Segment ", ToString(i), "\n\n">> \o sSummaries[i]

\* The letters of the transcript that occur in the collected summaries.
SummaryLetters ==
  SelectSeq(Flatten(sSummaries), LAMBDA c : c \notin {"S", ":"})

\* C22: the collected summaries are those of the successful chunks in chunk
\* order; with one summary the call returns it verbatim, without a heading,
\* whatever number of chunks were skipped; with k >= 2 it returns the
\* segments 'Segment 1' .. 'Segment k' in order, segment i carrying the
\* i-th collected summary.
C22_Assembly ==
  sPc = "returned" =>
    LET k == Len(sSummaries)
        out == sReturn[1].val
    IN /\ SummaryLetters =
            SelectSeq(sText, LAMBDA c : \E i \in 1..Len(SummaryLetters) : SummaryLetters[i] = c)
       /\ k = 1 => out = Some(sSummaries[1])
       /\ k >= 2 =>
            /\ out = Some(Flatten([i \in 1..k |-> SegmentOf(i)]))
            /\ Cardinality({p \in 1..Len(out[1]) : out[1][p] = "### Segment "}) = k

C22_Witness ==
  /\ sPc = "returned"
  /\ Len(sChunks) = 3
  /\ sRequests = <<1, 2, 3>>
  /\ sSummaries = << <<"S", ":">> \o sChunks[2], <<"S", ":">> \o sChunks[3] >>
  /\ SubSeq(sReturn[1].val[1], 1, 3) = <<"### Segment ", "1", "\n\n">>
  /\ SubSeq(sReturn[1].val[1], 4, 5 + Len(sChunks[2])) = <<"S", ":">> \o sChunks[2]

\* C26: the thread reaches the cleanup only with the outcome recorded and
\* done true, it does not end without having gone through the cleanup, and
\* once it has ended after a deletion that succeeded the video is gone.
C26_CleanupAfterTerminal ==
  /\ runnerPc \in {"cleanup", "cleanup_push", "cleanup_complete"} =>
       (done /\ (result # None \/ error # None))
  /\ (runnerPc = "ended" /\ videoExists) =>
       Last(messages) = [type |-> "error",
                         text |-> "Failed to cleanup uploaded video unlink failed"]

\* C27: no event is appended to messages once done is true.
C27_NoEventAfterDone == [][done => messages' = messages]_vars

\* C28: a poll of a job one of whose stages raised an exception that the
\* thread caught never answers 'done'; it answers 'error' with code 502 once
\* the job is done.
C28_FailedNeverPolledDone ==
  [][(pollAnswer' # pollAnswer /\ failedStage # 0) =>
       /\ pollAnswer'[1].status # "done"
       /\ done => (pollAnswer'[1].status = "error" /\ pollAnswer'[1].code = 502)]_vars

\* The log says that the summarization gave no summary.
EmptySummaryLogged ==
  \E i \in 1..Len(messages) :
    messages[i] = [type |-> "error",
                   text |-> "Pipeline failed: Summary generation returned empty result"]

\* C29: a job with a result ran its three stages without a failure, its log
\* has the three 'ok' events in order, the result's summary is not empty and
\* its transcript is the value the transcription returned; a job whose
\* summarization gave None or '' has no result and ends done with an error.
C29_ResultImpliesAllStages ==
  /\ result # None =>
       /\ stagesRun = {1, 2, 3}
       /\ failedStage = 0
       /\ SelectSeq(messages, LAMBDA e : e.type = "ok") =
            << [type |-> "ok", text |-> "Audio ready"],
               [type |-> "ok", text |-> "Transcription completed"],
               [type |-> "ok", text |-> "Summary completed"] >>
       /\ result[1].summary # ""
       /\ summary = Some(result[1].summary)
       /\ transcript = Some(result[1].transcript)
  /\ summary # None => summary[1] # ""
  /\ (failedStage = 3 \/ EmptySummaryLogged) => result = None
  /\ (runnerPc = "ended" /\ (failedStage = 3 \/ EmptySummaryLogged)) =>
       (done /\ error # None)

C29_Witness ==
  /\ runnerPc = "ended"
  /\ result # None
  /\ result[1].summary = "summary"
  /\ result[1].transcript = "transcript"

\* C30: the suffix of the file _save_upload stored for a job passes the
\* check extract_audio makes, and the first stage of a job does not fail
\* with the validation error of require_ext.
C30_UploadPassesStageValidation ==
  /\ runnerPc # "idle" =>
       require_ext(videoExt, VIDEO_EXTENSIONS, "video").kind = "return"
  /\ pending # None =>
       pending[1].msg # "Unsupported video extension: " \o videoExt

\* The lower-cased extension of each path the functions are called with.
LowerExtOf(name) ==
  CASE name = <<"m", ".", "m", "p", "4">> -> ".mp4"
    [] name = <<"n", ".", "M", "P", "4">> -> ".mp4"
    [] name = <<"z", ".", "m", "p", "4">> -> ".mp4"
    [] name = <<"k", ".", "T", "X", "T">> -> ".txt"
    [] name = <<"a", ".", "M", "P", "3">> -> ".mp3"
    [] name = <<"q">> -> ""
    [] OTHER -> ".wav"

\* The allow-list a call checks its input against.
AllowedFor(fn) == IF fn = "extract_audio" THEN VIDEO_EXTENSIONS ELSE AUDIO_EXTENSIONS

\* The path of the output file a call derives from its input.
OutputOf(fn, name) ==
  IF fn = "extract_audio" THEN AudioPath(name) ELSE TranscriptPath(name)

\* A call on an input that exists and has an allowed extension.
ValidCall(c, files) ==
  c.arg \in DOMAIN files /\ LowerExtOf(c.arg) \in AllowedFor(c.fn)

\* C23: a call whose derived output file already exists runs neither
\* ffmpeg nor the model, leaves every file as it is, and returns the path
\* of the audio file, resp. the exact content of the transcript file; and a
\* call that repeats the previous, successful call returns the same value
\* and writes nothing.
C23_ReuseIdempotent ==
  [][fsCalls' # fsCalls =>
       LET c == fsCall'[1]
       IN /\ (ValidCall(c, fsFiles) /\ OutputOf(c.fn, c.arg) \in DOMAIN fsFiles) =>
               /\ fsFfmpegRuns' = fsFfmpegRuns
               /\ fsWhisperRuns' = fsWhisperRuns
               /\ fsFiles' = fsFiles
               /\ c.fn = "extract_audio" => c.out = Return(AudioPath(c.arg))
               /\ c.fn = "transcribe_audio" =>
                    c.out = Return(fsFiles[TranscriptPath(c.arg)])
          /\ (/\ fsCall # None
              /\ fsCall[1].fn = c.fn
              /\ fsCall[1].arg = c.arg
              /\ fsCall[1].out.kind = "return"
              /\ OutputOf(c.fn, c.arg) \in DOMAIN fsFiles) =>
               /\ c.out = fsCall[1].out
               /\ fsFiles' = fsFiles
               /\ fsFfmpegRuns' = fsFfmpegRuns
               /\ fsWhisperRuns' = fsWhisperRuns]_vars

\* C24: a call on an existing input whose lower-cased extension is not in
\* the allow-list raises the validation error that names this extension,
\* runs neither ffmpeg nor the model and writes no file; an existing input
\* whose extension is in the allow-list in any letter case is not turned
\* away.
C24_BadExtensionRejected ==
  [][fsCalls' # fsCalls =>
       LET c == fsCall'[1]
           kind == IF c.fn = "extract_audio" THEN "video" ELSE "audio"
       IN c.arg \in DOMAIN fsFiles =>
            /\ LowerExtOf(c.arg) \notin AllowedFor(c.fn) =>
                 /\ c.out = Raise("SystemExit", "Unsupported " \o kind
                                     \o " extension: " \o LowerExtOf(c.arg))
                 /\ fsFiles' = fsFiles
                 /\ fsFfmpegRuns' = fsFfmpegRuns
                 /\ fsWhisperRuns' = fsWhisperRuns
            /\ LowerExtOf(c.arg) \in AllowedFor(c.fn) => c.out.kind # "SystemExit"]_vars

C24_Witness ==
  /\ fsCalls = 2
  /\ fsCall # None
  /\ fsCall[1].fn = "transcribe_audio"
  /\ fsCall[1].arg = <<"k", ".", "T", "X", "T">>
  /\ fsCall[1].out = Raise("SystemExit", "Unsupported audio extension: .txt")
  /\ fsFfmpegRuns = 1
  /\ fsWhisperRuns = 0
  /\ TranscriptPath(<<"k", ".", "T", "X", "T">>) \notin DOMAIN fsFiles

\* A number below 100 as two digits, below 1000 as three digits.
TwoDigits(n) == ToString(n \div 10) \o ToString(n % 10)

ThreeDigits(n) == ToString(n \div 100) \o TwoDigits(n % 100)

\* The time of ms milliseconds as HH:MM:SS,mmm, or as HH:MM:SS in simple mode.
Clock(ms, simple) ==
  TwoDigits((ms \div 1000) \div 3600) \o ":"
    \o TwoDigits(((ms \div 1000) % 3600) \div 60) \o ":"
    \o TwoDigits((ms \div 1000) % 60)
    \o (IF simple THEN "" ELSE "," \o ThreeDigits(ms % 1000))

\* C25: the returned text has four lines per segment, in the order of the
\* segments: the number i counted from 1, 'start --> end' with each time
\* as HH:MM:SS,mmm (HH = t div 3600, MM = (t mod 3600) div 60, SS = t mod
\* 60, mmm the milliseconds of the fraction; HH:MM:SS alone in simple
\* mode), the stripped text, and an empty line; 61.0 to 62.5 is
\* '00:01:01,000 --> 00:01:02,500'.
C25_SrtFormat ==
  srtPc = "returned" =>
    /\ Len(srtLines) = 4 * Len(srtSegments)
    /\ srtOut = Some(JoinLines(srtLines))
    /\ \A i \in 1..Len(srtSegments) :
         /\ srtLines[4 * i - 3] = ToString(i)
         /\ srtLines[4 * i - 2] =
              Clock(srtSegments[i].start.ms, srtSimple) \o " --> "
                \o Clock(srtSegments[i].end.ms, srtSimple)
         /\ srtLines[4 * i - 1] = Join(strip(srtSegments[i].text))
         /\ srtLines[4 * i] = ""
         /\ (srtSegments[i].start = T61000 /\ srtSegments[i].end = T62500 /\ ~srtSimple)
              => srtLines[4 * i - 2] = "00:01:01,000 --> 00:01:02,500"
====
